---- MODULE Spec2Model ----
(***************************************************************************)
(* Cayman Gateway <-> Mindbody integration: the session store, the         *)
(* notification pipeline (processCaymanNotification), the checkout-return  *)
(* handler, the signed webhook endpoints and the idempotency guard.        *)
(*                                                                         *)
(* Strings are sequences of one-character strings, so that trim,           *)
(* toLowerCase and the reference sanitizer are computed, not assumed.      *)
(* A JavaScript value is a record [t, s, b]: t is the typeof tag, s the    *)
(* characters of a string, b the value of a boolean.                       *)
(***************************************************************************)
EXTENDS Integers, Sequences, FiniteSets, TLC

VARIABLES
  store,       \* sessions.ts: the Map id -> Session
  pc,          \* per request handler: idle, or the call it awaits (client, checkout)
  hreq,        \* per handler: the request it serves
  locked,      \* per handler: lockedSession (webhooks.ts:252)
  resolved,    \* per handler: resolvedClientId (webhooks.ts:270)
  hist,        \* per handler: what it saw at its start and the calls it has made
  saleOk,      \* per session: checkoutShoppingCart calls that returned
  last,        \* the request answered last: what it was and how it ended
  seen,        \* idempotency.ts: the Set of seen keys, per endpoint
  timers,      \* idempotency.ts: pending setTimeout removals, per endpoint and key
  spc,         \* per signed-webhook handler: idle, or the call it awaits
  sreq,        \* per signed-webhook handler: the event it serves
  scalls,      \* per signed-webhook handler: downstream calls it has made
  window,      \* per endpoint and event id: never seen, open (seen, removal pending), closed
  onceLog,     \* per endpoint and key: once() calls that returned true in the window
  slast,       \* the delivery answered last: what it was and how it ended
  fnIn,        \* a function checked on its own: its arguments
  fnOut,       \* a function checked on its own: whether it was called, and its result
  mbo,         \* services/http.ts: the shared Mindbody client, its token refresh, its requests
  svc          \* mindbody/service.ts: the Mindbody service, its user token, its requests

vars == <<store, pc, hreq, locked, resolved, hist, saleOk, last,
          seen, timers, spc, sreq, scalls, window, onceLog, slast, fnIn, fnOut,
          mbo, svc>>

sessionVars == <<store, pc, hreq, locked, resolved, hist, saleOk, last>>
signedVars == <<seen, timers, spc, sreq, scalls, window, onceLog, slast>>
pureVars == <<fnIn, fnOut>>
httpVars == <<mbo, svc>>

----
\* JavaScript values

Undef == [t |-> "undef", s |-> <<>>, b |-> FALSE]
Str(chars) == [t |-> "str", s |-> chars, b |-> FALSE]
Bool(v) == [t |-> "bool", s |-> <<>>, b |-> v]

IsString(v) == v.t = "str"
\* !v
Falsy(v) == v.t = "undef" \/ (v.t = "str" /\ v.s = <<>>) \/ (v.t = "bool" /\ ~v.b)
\* a ?? b
Coalesce(a, b) == IF a.t = "undef" THEN b ELSE a

Whitespace == {" ", "\t", "\n"}

RECURSIVE TrimStart(_)
TrimStart(s) == IF s # <<>> /\ Head(s) \in Whitespace THEN TrimStart(Tail(s)) ELSE s

RECURSIVE TrimEnd(_)
TrimEnd(s) ==
  IF s # <<>> /\ s[Len(s)] \in Whitespace THEN TrimEnd(SubSeq(s, 1, Len(s) - 1)) ELSE s

\* String.prototype.trim
Trim(s) == TrimEnd(TrimStart(s))

UpperChars == <<"A","B","C","D","E","F","G","H","I","J","K","L","M",
                "N","O","P","Q","R","S","T","U","V","W","X","Y","Z">>
LowerChars == <<"a","b","c","d","e","f","g","h","i","j","k","l","m",
                "n","o","p","q","r","s","t","u","v","w","x","y","z">>
DigitChars == {"0","1","2","3","4","5","6","7","8","9"}

LowerChar(c) ==
  IF \E i \in 1..Len(UpperChars) : UpperChars[i] = c
    THEN LowerChars[CHOOSE i \in 1..Len(UpperChars) : UpperChars[i] = c]
    ELSE c

\* String.prototype.toLowerCase
ToLowerCase(s) == [i \in 1..Len(s) |-> LowerChar(s[i])]

Range(seq) == {seq[i] : i \in 1..Len(seq)}

\* payload[key], undefined when the key is not there
Field(payload, key) == IF key \in DOMAIN payload THEN payload[key] ELSE Undef

\* { ...a, ...b }
Merge(a, b) == [k \in (DOMAIN a) \cup (DOMAIN b) |-> IF k \in DOMAIN b THEN b[k] ELSE a[k]]

\* extractFirstString, on a string or a non-string scalar
extractFirstString(v) ==
  IF IsString(v) /\ Trim(v.s) # <<>> THEN Str(Trim(v.s)) ELSE Undef

----
\* determineSuccess

successCodes == {<<"0","0">>, <<"0">>, <<"0","0","0">>, <<"1","0","0">>}

successTexts == {<<"1">>, <<"s","u","c","c","e","e","d","e","d">>,
                 <<"s","u","c","c","e","s","s">>, <<"a","p","p","r","o","v","e","d">>}

resultCodeRaw(payload) ==
  IF IsString(Field(payload, "result-code")) THEN Field(payload, "result-code")
  ELSE IF IsString(Field(payload, "resultCode")) THEN Field(payload, "resultCode")
  ELSE Undef

resultRaw(payload) ==
  IF IsString(Field(payload, "result")) THEN Field(payload, "result")
  ELSE IF IsString(Field(payload, "status")) THEN Field(payload, "status")
  ELSE Undef

successFlag(payload) ==
  IF Field(payload, "success").t = "bool" THEN Field(payload, "success")
  ELSE IF Field(payload, "paid").t = "bool" THEN Field(payload, "paid")
  ELSE Undef

normalizedCode(payload) ==
  IF IsString(resultCodeRaw(payload)) THEN Str(Trim(resultCodeRaw(payload).s)) ELSE Undef

loweredResult(payload) ==
  IF IsString(resultRaw(payload)) THEN Str(Trim(ToLowerCase(resultRaw(payload).s))) ELSE Undef

hasTransactionId(payload) ==
  IsString(Field(payload, "transaction-id")) \/ IsString(Field(payload, "transactionId"))

isSuccessLenient(payload) ==
  /\ hasTransactionId(payload)
  /\ successFlag(payload) # Bool(FALSE)
  /\ (Falsy(normalizedCode(payload)) \/ normalizedCode(payload).s \in successCodes)

isSuccess(payload) ==
  \/ (IsString(normalizedCode(payload)) /\ normalizedCode(payload).s \in successCodes)
  \/ (IsString(loweredResult(payload)) /\ loweredResult(payload).s \in successTexts)
  \/ successFlag(payload) = Bool(TRUE)
  \/ isSuccessLenient(payload)

determineSuccess(payload) ==
  [isSuccess |-> isSuccess(payload),
   resultCode |-> normalizedCode(payload),
   resultText |-> loweredResult(payload)]

----
\* Field extraction and the reference sanitizer

RefChars ==
  {UpperChars[i] : i \in 1..Len(UpperChars)} \cup {LowerChars[i] : i \in 1..Len(LowerChars)}
    \cup DigitChars \cup {"_", "-"}

\* s.replace(/[^A-Za-z0-9_-]/g, "")
KeepRefChars(s) == SelectSeq(s, LAMBDA c : c \in RefChars)

RefLimit == 30

sanitizeReference(v) ==
  IF Falsy(v) \/ ~IsString(v) THEN Undef
  ELSE IF Trim(v.s) = <<>> THEN Undef
  ELSE IF KeepRefChars(Trim(v.s)) = <<>> THEN Undef
  ELSE Str(SubSeq(KeepRefChars(Trim(v.s)), 1,
                  IF Len(KeepRefChars(Trim(v.s))) < RefLimit
                    THEN Len(KeepRefChars(Trim(v.s))) ELSE RefLimit))

extractTransactionId(payload) ==
  IF ~Falsy(extractFirstString(Field(payload, "transaction-id")))
    THEN extractFirstString(Field(payload, "transaction-id"))
  ELSE IF ~Falsy(extractFirstString(Field(payload, "transactionId")))
    THEN extractFirstString(Field(payload, "transactionId"))
  ELSE IF ~Falsy(extractFirstString(Field(payload, "transactionid")))
    THEN extractFirstString(Field(payload, "transactionid"))
  ELSE IF ~Falsy(extractFirstString(
              Coalesce(Field(payload, "txn_id"),
                       Coalesce(Field(payload, "txn-id"), Field(payload, "txnid")))))
    THEN extractFirstString(
              Coalesce(Field(payload, "txn_id"),
                       Coalesce(Field(payload, "txn-id"), Field(payload, "txnid"))))
  ELSE extractFirstString(
              Coalesce(Field(payload, "result-txn-id"),
                       Coalesce(Field(payload, "resultTxnId"), Field(payload, "reference"))))

extractAuthCode(payload) ==
  Coalesce(extractFirstString(Field(payload, "authorization-code")),
           Coalesce(extractFirstString(Field(payload, "authorizationCode")),
                    extractFirstString(Field(payload, "auth"))))

extractMaskedPan(payload) ==
  Coalesce(extractFirstString(Field(payload, "maskedPAN")),
           extractFirstString(Field(payload, "masked-pan")))

\* maskedPan.length >= 4 ? maskedPan.slice(-4) : undefined
last4Of(maskedPan) ==
  IF IsString(maskedPan) /\ Len(maskedPan.s) >= 4
    THEN Str(SubSeq(maskedPan.s, Len(maskedPan.s) - 3, Len(maskedPan.s)))
    ELSE Undef

----
\* The session store

\* store.get(id) !== undefined
Has(st, id) == id \in DOMAIN st

\* save
save(st, session) ==
  [k \in (DOMAIN st) \cup {session.id} |-> IF k = session.id THEN session ELSE st[k]]

CaymanOf(x) == IF "cayman" \in DOMAIN x THEN x.cayman ELSE <<>>

\* the spreads in the wrong order: the stored fields win over the patch
UpdatedExistingWins(existing, patch) ==
  Merge(Merge(patch, existing), [cayman |-> Merge(CaymanOf(patch), CaymanOf(existing))])

\* the gateway metadata replaced as a whole, not merged
UpdatedShallow(existing, patch) == Merge(existing, patch)

\* the object update builds: { ...existing, ...patch, cayman: { ...existing.cayman, ...patch.cayman } }
Updated(existing, patch) ==
  Merge(Merge(existing, patch), [cayman |-> Merge(CaymanOf(existing), CaymanOf(patch))])

\* update: the store after update(id, patch)
update(st, id, patch) ==
  IF ~Has(st, id) THEN st
  ELSE [st EXCEPT ![id] = Updated(st[id], patch)]

----
\* Sessions, requests and the model's bounds

SessionIds == {<<"s","1">>, <<"s","2">>}
GhostId == <<"s","9">>
Handlers == {"h1", "h2"}

\* successful sale calls counted per session
MaxSaleOk == 2

StoredClientId == Str(<<"7","0","1">>)
FoundClientId == Str(<<"8","8">>)
AddedClientId == Str(<<"9","9">>)
\* client?.Id ?? client?.ID of the client getOrCreateClient returned: the one it
\* found by email, or the one it added
ClientIdOf(outcome) == IF outcome = "found" THEN FoundClientId ELSE AddedClientId

SessionLines ==
  <<[productId |-> <<"4","2">>, name |-> "Yoga", unitPrice |-> 1999, qty |-> 2,
     type |-> Str(<<"S","e","r","v","i","c","e">>)]>>

\* the Session object every creation path saves: status created, the customer,
\* the lines, the total and cayman.orderId; clientId only when the caller gave one
NewSession(id, clientId) ==
  LET base == [id |-> id,
               customer |-> [email |-> "a@x.io", firstName |-> "Guest", lastName |-> "Checkout"],
               lines |-> SessionLines,
               total |-> 3998,
               status |-> "created",
               inStore |-> FALSE,
               cayman |-> [orderId |-> Str(<<"o","s","_">> \o id)]]
  IN IF Falsy(clientId) THEN base ELSE Merge(base, [clientId |-> clientId])

\* the client id the caller of the creation path gave for session id, if any
GivenClientId(id) == IF id = <<"s","2">> THEN StoredClientId ELSE Undef

S00 == Str(<<"0","0">>)
STx1 == Str(<<"T","X","1">>)
STx2 == Str(<<"T","X","2">>)

\* result-code 00 with transaction id, authorization code and masked card
PaySuccess ==
  ("result-code" :> S00) @@ ("transaction-id" :> STx1)
    @@ ("authorization-code" :> Str(<<"A","9">>))
    @@ ("maskedPAN" :> Str(<<"4","*","*","1","2","3","4">>))
\* JSON body { success: true }
PayFlag == ("success" :> Bool(TRUE))
\* result "0": the gateway's failure report
PayFail == ("result" :> Str(<<"0">>))
\* nothing but the session id
PayEmpty == <<>>

Payloads == {PaySuccess, PayFlag, PayFail, PayEmpty}
\* a query string carries strings only
QueryPayloads == {p \in Payloads : \A k \in DOMAIN p : IsString(p[k])}

\* the session id a request names (an id that was never saved, or none at all,
\* comes with one payload) and its payload
Requests(payloads) ==
  {<<Str(id), p>> : id \in SessionIds, p \in payloads}
    \cup {<<Str(GhostId), PaySuccess>>, <<Undef, PaySuccess>>}

NoResult == [status |-> "none", detail |-> ""]
Result(status, detail) == [status |-> status, detail |-> detail]
NoReq == [kind |-> "none", sid |-> Undef, payload |-> <<>>, sig |-> FALSE]
NoSession == [id |-> <<>>]
NoHist == [start |-> "none", overlapped |-> FALSE, client |-> 0, sale |-> 0]
NoLast == [req |-> NoReq, http |-> 0, result |-> NoResult, start |-> "none",
           overlapped |-> FALSE, peers |-> {}, client |-> 0, sale |-> 0, resolved |-> Undef]

----
\* processCaymanNotification

AlreadyPaidNever(session) == FALSE

\* webhooks.ts:236
AlreadyPaid(session) == session.status = "paid"

InProcessingNever(session) == FALSE

\* webhooks.ts:240
InProcessing(session) == session.status = "processing"

MarkFailedForgotten(st, id) == st

\* webhooks.ts:246-247: what a notification that is not successful does to the store
MarkFailed(st, id) == update(st, id, [status |-> "failed"])

\* webhooks.ts:262-263: !customer && !lockedSession.clientId
CustomerDataMissing(session) ==
  "customer" \notin DOMAIN session /\ Falsy(Field(session, "clientId"))

\* the paid update writing the transaction id over the gateway order id
PaidPatchOverOrderId(lockedSession, payload) ==
  [status |-> "paid",
   cayman |-> [orderId |-> extractTransactionId(payload),
               auth |-> extractAuthCode(payload),
               last4 |-> last4Of(extractMaskedPan(payload))]]

\* the patch of the paid update (webhooks.ts:311-314, 352-361)
PaidPatch(lockedSession, payload) ==
  [status |-> "paid",
   cayman |-> [transactionId |->
                 Coalesce(sanitizeReference(extractTransactionId(payload)),
                          sanitizeReference(sanitizeReference(Field(CaymanOf(lockedSession), "orderId")))),
               auth |-> extractAuthCode(payload),
               last4 |-> last4Of(extractMaskedPan(payload))]]

\* webhooks.ts:317-331: sanitizedTxnId ?? orderId ?? sanitizeReference(sessionId)
referenceValue(lockedSession, sid, payload) ==
  Coalesce(sanitizeReference(extractTransactionId(payload)),
           Coalesce(sanitizeReference(Field(CaymanOf(lockedSession), "orderId")),
                    sanitizeReference(sid)))

\* get-or-create in the place of get: a session is made up for an unknown id
ProcessStartCreating(st, sid, payload) ==
  [store |-> IF Falsy(sid) \/ Has(st, sid.s) THEN st ELSE save(st, NewSession(sid.s, Undef)),
   pc |-> "done",
   result |-> IF Falsy(sid) THEN Result("missing_session", "sessionId not provided")
              ELSE Result("no_session", "Session not found"),
   locked |-> NoSession, resolved |-> Undef]

\* What the first synchronous stretch of processCaymanNotification does with the
\* store st for session id sid and the merged payload: the store it leaves, where
\* the handler stands (done, or awaiting getOrCreateClient or checkoutShoppingCart),
\* its result so far, lockedSession and resolvedClientId.
ProcessStart(st, sid, payload) ==
  LET stop(st2, status, detail) ==
        [store |-> st2, pc |-> "done", result |-> Result(status, detail),
         locked |-> NoSession, resolved |-> Undef]
  IN
  IF Falsy(sid) THEN stop(st, "missing_session", "sessionId not provided")
  ELSE IF ~Has(st, sid.s) THEN stop(st, "no_session", "Session not found")
  ELSE IF AlreadyPaid(st[sid.s]) THEN stop(st, "already_paid", "")
  ELSE IF InProcessing(st[sid.s]) THEN stop(st, "processing", "")
  ELSE IF ~determineSuccess(payload).isSuccess
    THEN stop(MarkFailed(st, sid.s), "failed", "Gateway reported failure")
  ELSE
    LET st1 == update(st, sid.s, [status |-> "processing"])
        lockedSession == st1[sid.s]
    IN
    IF lockedSession.status = "paid" THEN stop(st1, "already_paid", "")
    ELSE IF CustomerDataMissing(lockedSession)
      THEN stop(update(st1, sid.s, [status |-> "failed"]), "failed", "Customer data missing")
    ELSE IF Falsy(Field(lockedSession, "clientId"))
      THEN [store |-> st1, pc |-> "client", result |-> NoResult,
            locked |-> lockedSession, resolved |-> Undef]
      ELSE [store |-> st1, pc |-> "checkout", result |-> NoResult,
            locked |-> lockedSession, resolved |-> Field(lockedSession, "clientId")]

\* handlers awaiting a downstream call for session id when handler h starts
PeersOf(h, id) == {g \in Handlers \ {h} : pc[g] # "idle" /\ hreq[g].sid = Str(id)}

\* The handler applies the outcome o of ProcessStart to request r; when o ends the
\* request, it is answered with the HTTP status http.
Begin(h, r, o, http) ==
  LET id == r.sid.s
      known == ~Falsy(r.sid) /\ Has(store, id)
      peers == IF known THEN PeersOf(h, id) ELSE {}
      \* a successful notification starts while the peers await their calls
      overlap == r.kind = "webhook" /\ isSuccess(r.payload)
      mine == [start |-> IF known THEN store[id].status ELSE "absent",
               overlapped |-> FALSE,
               client |-> IF o.pc = "client" THEN 1 ELSE 0,
               sale |-> IF o.pc = "checkout" THEN 1 ELSE 0]
  IN
  /\ store' = o.store
  /\ IF o.pc = "done"
       THEN /\ last' = [req |-> r, http |-> http, result |-> o.result, start |-> mine.start,
                        overlapped |-> FALSE, peers |-> peers, client |-> 0, sale |-> 0,
                        resolved |-> Undef]
            /\ hist' = [g \in Handlers |->
                          IF g \in peers THEN [hist[g] EXCEPT !.overlapped = @ \/ overlap] ELSE hist[g]]
            /\ UNCHANGED <<pc, hreq, locked, resolved>>
       ELSE /\ pc' = [pc EXCEPT ![h] = o.pc]
            /\ hreq' = [hreq EXCEPT ![h] = r]
            /\ locked' = [locked EXCEPT ![h] = o.locked]
            /\ resolved' = [resolved EXCEPT ![h] = o.resolved]
            /\ hist' = [g \in Handlers |->
                          IF g = h THEN mine
                          ELSE IF g \in peers THEN [hist[g] EXCEPT !.overlapped = @ \/ overlap]
                          ELSE hist[g]]
            /\ UNCHANGED last
  /\ UNCHANGED saleOk

\* handleCaymanNotification: POST or GET /webhook/cayman. The request's signature
\* header (sig: whether it is the HMAC of the body) is never looked at.
Webhook(h, sid, payload, sig) ==
  /\ pc[h] = "idle"
  /\ Begin(h, [kind |-> "webhook", sid |-> sid, payload |-> payload, sig |-> sig],
           ProcessStart(store, sid, payload), 200)
  /\ UNCHANGED <<signedVars, pureVars, httpVars>>

\* createCheckoutReturnHandler: GET /v1/checkout/return?sessionId=...
CheckoutReturn(h, sid, payload) ==
  LET r == [kind |-> "return", sid |-> sid, payload |-> payload, sig |-> FALSE]
      stay == [store |-> store, pc |-> "done", result |-> NoResult,
               locked |-> NoSession, resolved |-> Undef]
  IN
  /\ pc[h] = "idle"
  /\ IF Falsy(sid) \/ ~Has(store, sid.s) THEN Begin(h, r, stay, 400)
     ELSE IF store[sid.s].status # "paid" THEN Begin(h, r, ProcessStart(store, sid, payload), 200)
     ELSE Begin(h, r, stay, 200)
  /\ UNCHANGED <<signedVars, pureVars, httpVars>>

\* The handler stops with a result and is free for the next request.
Finish(h, st, status, detail) ==
  /\ store' = st
  /\ last' = [req |-> hreq[h], http |-> 200, result |-> Result(status, detail),
              start |-> hist[h].start, overlapped |-> hist[h].overlapped, peers |-> {},
              client |-> hist[h].client, sale |-> hist[h].sale, resolved |-> resolved[h]]
  /\ pc' = [pc EXCEPT ![h] = "idle"]
  /\ hreq' = [hreq EXCEPT ![h] = NoReq]
  /\ locked' = [locked EXCEPT ![h] = NoSession]
  /\ resolved' = [resolved EXCEPT ![h] = Undef]
  /\ hist' = [hist EXCEPT ![h] = NoHist]

FulfilmentFailedForgotten(st, id) == st

\* webhooks.ts:284 and 373: update(sessionId, { status: "failed" }) when the
\* customer is missing or a downstream call threw
FulfilmentFailed(st, id) == update(st, id, [status |-> "failed"])

StoreClientIdForgotten(st, id, clientId) == st

\* webhooks.ts:288: update(sessionId, { clientId: String(resolvedClientId) })
StoreClientId(st, id, clientId) == update(st, id, [clientId |-> clientId])

\* getOrCreateClient returns (webhooks.ts:279-289) with a client id, with none, or throws.
ClientDone(h, outcome) ==
  LET id == hreq[h].sid.s IN
  /\ pc[h] = "client"
  /\ IF outcome \in {"found", "added"}
       THEN /\ store' = StoreClientId(store, id, ClientIdOf(outcome))
            /\ resolved' = [resolved EXCEPT ![h] = ClientIdOf(outcome)]
            /\ pc' = [pc EXCEPT ![h] = "checkout"]
            /\ hist' = [hist EXCEPT ![h].sale = @ + 1]
            /\ UNCHANGED <<hreq, locked, last>>
     ELSE Finish(h, FulfilmentFailed(store, id), "failed",
                 IF outcome = "none" THEN "Mindbody client missing"
                 ELSE "Mindbody fulfillment failed")
  /\ UNCHANGED <<saleOk, signedVars, pureVars, httpVars>>

\* every line sold as a service
resolveMindbodyItemTypeService(lineType) == "Service"

\* webhooks.ts:291-299
resolveMindbodyItemType(lineType) ==
  IF IsString(lineType)
    THEN IF ToLowerCase(Trim(lineType.s)) = <<"p","r","o","d","u","c","t">> THEN "Product"
         ELSE IF ToLowerCase(Trim(lineType.s))
                   \in {<<"p","a","c","k","a","g","e">>,
                        <<"p","r","i","c","i","n","g","o","p","t","i","o","n">>}
           THEN "PricingOption"
         ELSE "Service"
    ELSE "Service"

\* webhooks.ts:301-309: lockedSession.lines.map(...)
cartItems(lines) ==
  [i \in 1..Len(lines) |->
     [Type |-> resolveMindbodyItemType(Field(lines[i], "type")),
      Id |-> lines[i].productId,
      Quantity |-> lines[i].qty,
      Price |-> lines[i].unitPrice,
      Description |-> lines[i].name]]

\* webhooks.ts:342-350: the argument of the checkoutShoppingCart call handler h awaits
CheckoutCall(h) ==
  [ClientId |-> resolved[h],
   Items |-> cartItems(locked[h].lines),
   Total |-> locked[h].total,
   paymentReference |-> referenceValue(locked[h], hreq[h].sid, hreq[h].payload),
   externalReferenceId |-> referenceValue(locked[h], hreq[h].sid, hreq[h].payload)]

\* checkoutShoppingCart returns (webhooks.ts:342-371) or throws (webhooks.ts:372-405).
CheckoutDone(h, ok) ==
  LET id == hreq[h].sid.s IN
  /\ pc[h] = "checkout"
  /\ IF ok
       THEN /\ saleOk[id] < MaxSaleOk
            /\ Finish(h, update(store, id, PaidPatch(locked[h], hreq[h].payload)), "paid", "")
            /\ saleOk' = [saleOk EXCEPT ![id] = @ + 1]
       ELSE /\ Finish(h, FulfilmentFailed(store, id), "failed",
                      "Mindbody fulfillment failed")
            /\ UNCHANGED saleOk
  /\ UNCHANGED <<signedVars, pureVars, httpVars>>

\* A checkout-initiation path saves a new session.
CreateSession(id) ==
  /\ ~Has(store, id)
  /\ store' = save(store, NewSession(id, GivenClientId(id)))
  /\ UNCHANGED <<pc, hreq, locked, resolved, hist, saleOk, last, signedVars, pureVars, httpVars>>

----
\* The idempotency guard and the signed webhook endpoints

\* POST /webhooks/cayman of web/webhooks.ts (guard: lib/idempotency.ts) and of the
\* legacy controller (guard: utils/idempotency.ts); each guard has its own Set.
Endpoints == {"web", "legacy"}
EventIds == {"e1", "e2"}
SignedHandlers == {"w1", "w2"}

Secret == "whsec"

\* `cg:${event.id}`
Key(id) == <<"cg:", id>>

\* the guard without its has() test
onceUnchecked(seenKeys, key) ==
  [ret |-> TRUE, seen |-> seenKeys \cup {key}, armed |-> TRUE]

\* once(key): what it returns, the Set it leaves, and whether it armed a removal timer
once(seenKeys, key) ==
  IF key \in seenKeys
    THEN [ret |-> FALSE, seen |-> seenKeys, armed |-> FALSE]
    ELSE [ret |-> TRUE, seen |-> seenKeys \cup {key}, armed |-> TRUE]

\* a webhook event as JSON.parse gives it; who names the customer: the metadata's
\* clientId, its email, or nothing
Event(id, status, item, who, amount) ==
  [json |-> TRUE, id |-> id, status |-> status, item |-> item, who |-> who, amount |-> amount]
Garbage == [json |-> FALSE, id |-> "", status |-> "", item |-> FALSE, who |-> "none", amount |-> FALSE]

Bodies ==
  {Event(id, "succeeded", TRUE, "clientId", TRUE) : id \in EventIds}
    \cup {Event("e1", "succeeded", TRUE, "email", TRUE),
          Event("e1", "failed", TRUE, "clientId", TRUE),
          Event("e1", "succeeded", FALSE, "clientId", TRUE),
          Event("e1", "succeeded", TRUE, "none", TRUE),
          Event("e1", "succeeded", TRUE, "clientId", FALSE),
          Event("", "succeeded", TRUE, "clientId", TRUE),
          Garbage}

\* the bytes a request body stands for: one number per body
BodyCode(raw) ==
  (IF raw.json THEN 1 ELSE 0)
    + 2 * (IF raw.id = "e1" THEN 1 ELSE IF raw.id = "e2" THEN 2 ELSE 0)
    + 6 * (IF raw.status = "succeeded" THEN 1 ELSE 0)
    + 12 * (IF raw.item THEN 1 ELSE 0)
    + 24 * (IF raw.who = "clientId" THEN 1 ELSE IF raw.who = "email" THEN 2 ELSE 0)
    + 72 * (IF raw.amount THEN 1 ELSE 0)

\* crypto.createHmac("sha256", secret).update(raw).digest(): 32 bytes, different for
\* different bodies and for different secrets
DigestLen == 32
Hmac(raw, secret) ==
  LET seed == 2 * BodyCode(raw) + (IF secret = Secret THEN 0 ELSE 1) IN
  [i \in 1..DigestLen |->
     IF i = 1 THEN seed % 256 ELSE IF i = 2 THEN seed \div 256 ELSE (seed + 7 * i) % 256]

HexDigits == <<"0","1","2","3","4","5","6","7","8","9","a","b","c","d","e","f">>

\* the value of a hexadecimal digit of either case, -1 for any other character
HexValue(c) ==
  IF \E i \in 1..16 : HexDigits[i] = LowerChar(c)
    THEN (CHOOSE i \in 1..16 : HexDigits[i] = LowerChar(c)) - 1
    ELSE -1

\* Buffer.from(s, "hex"): whole pairs of hexadecimal digits, up to the first pair
\* that is not one; a single trailing digit is dropped
RECURSIVE HexDecode(_)
HexDecode(s) ==
  IF Len(s) < 2 THEN <<>>
  ELSE IF HexValue(s[1]) < 0 \/ HexValue(s[2]) < 0 THEN <<>>
  ELSE <<16 * HexValue(s[1]) + HexValue(s[2])>> \o HexDecode(SubSeq(s, 3, Len(s)))

\* buf.toString("hex")
HexEncode(bytes) ==
  [i \in 1..(2 * Len(bytes)) |->
     IF i % 2 = 1 THEN HexDigits[(bytes[(i + 1) \div 2] \div 16) + 1]
     ELSE HexDigits[(bytes[i \div 2] % 16) + 1]]

\* hmacVerify(raw, header, secret)
hmacVerify(raw, header, secret) ==
  IF Falsy(header) THEN FALSE
  ELSE IF Len(Hmac(raw, secret)) # Len(HexDecode(header.s)) THEN FALSE
  ELSE Hmac(raw, secret) = HexDecode(header.s)

\* the header the gateway sends with body b
Signature(b) == Str(HexEncode(Hmac(b, Secret)))

\* the signature headers a request for body b can carry: none, the HMAC of b under
\* the secret, the HMAC of another body (b was tampered with), the HMAC under
\* another secret, a header of another length
HeadersFor(b) ==
  {Undef, Signature(b), Signature(Garbage), Str(HexEncode(Hmac(b, "other"))),
   Str(SubSeq(Signature(b).s, 1, DigestLen))}

\* the requests delivered: every body under its own signature, and one body with
\* each of the other headers and as a request whose body is no Buffer
Deliveries ==
  {<<TRUE, b, Signature(b)>> : b \in Bodies}
    \cup {<<TRUE, Event("e1", "succeeded", TRUE, "clientId", TRUE), header>> :
            header \in HeadersFor(Event("e1", "succeeded", TRUE, "clientId", TRUE))}
    \cup {<<FALSE, Event("e1", "succeeded", TRUE, "clientId", TRUE),
             Signature(Event("e1", "succeeded", TRUE, "clientId", TRUE))>>}

\* hmacVerify(rawBody, signature, env.CAYMAN_WEBHOOK_SECRET) of each request delivered
SignatureOk == [d \in Deliveries |-> hmacVerify(d[2], d[3], Secret)]

NoEvent == [ep |-> "none", id |-> "", who |-> "none"]
NoSLast == [ep |-> "none", id |-> "", verified |-> FALSE, http |-> 0, body |-> "none",
            once |-> "none", win |-> "never", calls |-> 0]

DedupedNever(ep, id) == FALSE

\* paylinks.ts:91 and legacyCaymanWebhookController.ts:72: !once(`cg:${event.id}`)
Deduped(ep, id) == ~once(seen[ep], Key(id)).ret

\* The synchronous stretch of the signed handler, up to its first await.
Deliver(w, ep, buffer, b, header) ==
  LET reject ==
        /\ slast' = [NoSLast EXCEPT !.ep = ep, !.id = b.id, !.http = 400, !.body = "error",
                                    !.verified = buffer /\ SignatureOk[<<buffer, b, header>>]]
        /\ UNCHANGED <<seen, timers, window, onceLog, spc, sreq, scalls>>
      guard ==
        /\ seen' = [seen EXCEPT ![ep] = once(@, Key(b.id)).seen]
        /\ timers' = IF once(seen[ep], Key(b.id)).armed
                       THEN [timers EXCEPT ![ep][b.id] = @ + 1] ELSE timers
        /\ window' = [window EXCEPT ![ep][b.id] = "open"]
        /\ onceLog' = IF Deduped(ep, b.id) THEN onceLog
                      ELSE [onceLog EXCEPT ![ep][b.id] = @ + 1]
      answer(http, what) ==
        /\ guard
        /\ slast' = [ep |-> ep, id |-> b.id, verified |-> TRUE, http |-> http, body |-> what,
                     once |-> IF Deduped(ep, b.id) THEN "false" ELSE "true",
                     win |-> window[ep][b.id], calls |-> 0]
        /\ UNCHANGED <<spc, sreq, scalls>>
  IN
  /\ spc[w] = "idle"
  /\ IF ~buffer THEN reject
     ELSE IF ~SignatureOk[<<buffer, b, header>>] THEN reject
     ELSE IF ~b.json THEN reject
     ELSE IF b.id = "" THEN reject
     ELSE IF Deduped(ep, b.id) THEN answer(200, "deduped")
     ELSE IF b.status # "succeeded" THEN answer(200, "ignored")
     ELSE IF ~b.item THEN answer(400, "error")
     ELSE IF ~b.amount THEN answer(400, "error")
     ELSE /\ guard
          /\ spc' = [spc EXCEPT ![w] = "token"]
          /\ sreq' = [sreq EXCEPT ![w] = [ep |-> ep, id |-> b.id, who |-> b.who]]
          /\ scalls' = [scalls EXCEPT ![w] = [n |-> 1, sales |-> 0, win |-> window[ep][b.id],
                                                  once |-> IF Deduped(ep, b.id) THEN "false" ELSE "true"]]
          /\ UNCHANGED slast
  /\ UNCHANGED <<sessionVars, pureVars, httpVars>>

NoCalls == [n |-> 0, sales |-> 0, win |-> "never", once |-> "none"]

\* The signed handler stops with an HTTP status and a body.
Answer(w, http, what) ==
  /\ slast' = [ep |-> sreq[w].ep, id |-> sreq[w].id, verified |-> TRUE, http |-> http,
               body |-> what, once |-> scalls[w].once, win |-> scalls[w].win,
               calls |-> scalls[w].n]
  /\ spc' = [spc EXCEPT ![w] = "idle"]
  /\ sreq' = [sreq EXCEPT ![w] = NoEvent]
  /\ scalls' = [scalls EXCEPT ![w] = NoCalls]

\* The signed handler calls checkoutShoppingCart for its event.
CallSale(w) ==
  /\ spc' = [spc EXCEPT ![w] = "sale"]
  /\ scalls' = [scalls EXCEPT ![w].n = @ + 1, ![w].sales = @ + 1]
  /\ UNCHANGED <<sreq, slast>>

\* issueUserToken returns or throws (paylinks.ts:123-145, legacy controller 98-111)
TokenDone(w, ok) ==
  /\ spc[w] = "token"
  /\ IF ~ok THEN Answer(w, 400, "error")
     ELSE IF sreq[w].who = "clientId" THEN CallSale(w)
     ELSE IF sreq[w].who # "email" THEN Answer(w, 400, "error")
     ELSE /\ spc' = [spc EXCEPT ![w] = "upsert"]
          /\ scalls' = [scalls EXCEPT ![w].n = @ + 1]
          /\ UNCHANGED <<sreq, slast>>
  /\ UNCHANGED <<seen, timers, window, onceLog, sessionVars, pureVars, httpVars>>

\* upsertClient returns or throws
UpsertDone(w, ok) ==
  /\ spc[w] = "upsert"
  /\ IF ok THEN CallSale(w) ELSE Answer(w, 400, "error")
  /\ UNCHANGED <<seen, timers, window, onceLog, sessionVars, pureVars, httpVars>>

\* checkoutShoppingCart returns or throws
SaleDone(w, ok) ==
  /\ spc[w] = "sale"
  /\ IF ok THEN Answer(w, 200, "sale") ELSE Answer(w, 400, "error")
  /\ UNCHANGED <<seen, timers, window, onceLog, sessionVars, pureVars, httpVars>>

\* setTimeout(() => seen.delete(key), ttlMs) fires
Expire(ep, id) ==
  /\ timers[ep][id] > 0
  /\ timers' = [timers EXCEPT ![ep][id] = @ - 1]
  /\ seen' = [seen EXCEPT ![ep] = @ \ {Key(id)}]
  /\ window' = [window EXCEPT ![ep][id] = "closed"]
  /\ onceLog' = [onceLog EXCEPT ![ep][id] = 0]
  /\ UNCHANGED <<spc, sreq, scalls, slast, sessionVars, pureVars, httpVars>>

----
\* Functions checked on their own: fnIn holds the arguments, fnOut the result

NotCalled == [done |-> FALSE]

----
\* Classification of payloads by determineSuccess

ClassifyInputs ==
  LET
    CodeInputs == {Undef, S00, Str(<<"0">>), Str(<<"0","0","0">>), Str(<<"1","0","0">>),
                   Str(<<" ","0","0"," ">>), Str(<<"0","5">>), Str(<<>>)}
    TextInputs == {Undef, Str(<<"1">>), Str(<<"s","u","c","c","e","e","d","e","d">>),
                   Str(<<"s","u","c","c","e","s","s">>), Str(<<"A","p","p","r","o","v","e","d"," ">>),
                   Str(<<"0">>), Str(<<"d","e","c","l","i","n","e","d">>)}
    FlagInputs == {Undef, Bool(TRUE), Bool(FALSE)}
    TxnInputs == {Undef, STx1}
    \* an object with exactly the keys whose value is not undefined
    Object(f) == [k \in {x \in DOMAIN f : f[x] # Undef} |-> f[k]]
  IN
    {Object(("result-code" :> c) @@ ("resultCode" :> c2) @@ ("result" :> r) @@ ("status" :> s)
            @@ ("success" :> f) @@ ("paid" :> f2) @@ ("transaction-id" :> x)
            @@ ("transactionId" :> x2)) :
       c \in CodeInputs, c2 \in {Undef, S00}, r \in TextInputs,
       s \in {Undef, Str(<<"a","p","p","r","o","v","e","d">>)},
       f \in FlagInputs, f2 \in {Undef, Bool(TRUE)}, x \in TxnInputs, x2 \in {Undef, STx2}}

Classify ==
  /\ ~fnOut.done
  /\ fnOut' = Merge(determineSuccess(fnIn), [done |-> TRUE])
  /\ UNCHANGED <<fnIn, sessionVars, signedVars, httpVars>>

----
\* hmacVerify on its own

Upper(s) ==
  [i \in 1..Len(s) |->
     IF \E k \in 1..Len(LowerChars) : LowerChars[k] = s[i]
       THEN UpperChars[CHOOSE k \in 1..Len(LowerChars) : LowerChars[k] = s[i]]
       ELSE s[i]]

\* the headers tried with body b: none, the empty string, the gateway's signature,
\* the same in capitals, with two letters or one digit appended, cut by one byte or
\* by one digit, with a first character that is no digit, the signature of another
\* body, under another secret, and a text that is no hexadecimal at all
VerifyHeaders(b) ==
  {Undef, Str(<<>>), Signature(b), Str(Upper(Signature(b).s)),
   Str(Signature(b).s \o <<"z","z">>), Str(Signature(b).s \o <<"a">>),
   Str(SubSeq(Signature(b).s, 1, 2 * DigestLen - 2)),
   Str(SubSeq(Signature(b).s, 1, 2 * DigestLen - 1)),
   Str(<<"g">> \o Tail(Signature(b).s)),
   Signature(Event("e2", "failed", FALSE, "none", FALSE)),
   Str(HexEncode(Hmac(b, "other"))),
   Str(<<"s","h","a","2","5","6","=","x">>)}

VerifyInputs == UNION {{[raw |-> b, header |-> h] : h \in VerifyHeaders(b)} : b \in Bodies}

Verify ==
  /\ ~fnOut.done
  /\ fnOut' = [done |-> TRUE, ret |-> hmacVerify(fnIn.raw, fnIn.header, Secret)]
  /\ UNCHANGED <<fnIn, sessionVars, signedVars, httpVars>>

----
\* update on its own

UpdateInputs ==
  LET
    \* sessions as the program stores them: as created, with a resolved client, paid
    StoredSessions(id) ==
      {NewSession(id, Undef),
       NewSession(id, StoredClientId),
       Updated(NewSession(id, Undef), [status |-> "processing", clientId |-> FoundClientId]),
       Updated(NewSession(id, StoredClientId), PaidPatch(NewSession(id, StoredClientId), PaySuccess))}
    \* stores of one or two sessions
    UpdateStores ==
      {save(<<>>, s) : s \in StoredSessions(<<"s","1">>)}
        \cup {save(save(<<>>, s), NewSession(<<"s","2">>, StoredClientId)) :
                s \in StoredSessions(<<"s","1">>)}
    \* the patches processCaymanNotification passes to update, and patches of the
    \* gateway metadata alone
    UpdatePatches ==
      {[status |-> "failed"], [status |-> "processing"], [clientId |-> FoundClientId],
       PaidPatch(NewSession(<<"s","1">>, Undef), PaySuccess),
       PaidPatch(NewSession(<<"s","1">>, Undef), PayFlag),
       [cayman |-> [auth |-> Str(<<"B","7">>)]],
       [status |-> "paid", cayman |-> [transactionId |-> STx2]],
       [cayman |-> <<>>]}
  IN
    {[store |-> st, id |-> id, patch |-> patch] :
       st \in UpdateStores, id \in SessionIds \cup {GhostId}, patch \in UpdatePatches}

\* what update returns: the updated session, or undefined
updateReturn(st, id, patch) == IF ~Has(st, id) THEN Undef ELSE Updated(st[id], patch)

Update ==
  /\ ~fnOut.done
  /\ fnOut' = [done |-> TRUE,
               store |-> update(fnIn.store, fnIn.id, fnIn.patch),
               ret |-> updateReturn(fnIn.store, fnIn.id, fnIn.patch)]
  /\ UNCHANGED <<fnIn, sessionVars, signedVars, httpVars>>

----
\* The totals of the sessions the creation paths save. Amounts of money are in
\* thousandths of the currency unit, so that a price with a fraction of a cent
\* is a whole number; quantities are whole numbers.

\* Number.parseFloat(x.toFixed(2)): x rounded to hundredths (no input used here
\* lies halfway between two hundredths)
ToFixed2(x) == 10 * ((x + 5) \div 10)

RECURSIVE SumLines(_)
\* the sum over the lines of unitPrice * qty
SumLines(lines) ==
  IF lines = <<>> THEN 0 ELSE Head(lines).unitPrice * Head(lines).qty + SumLines(Tail(lines))

NothingSaved == [saved |-> FALSE, lines |-> <<>>, total |-> 0]

\* createCheckoutSessionHandler (part_002:221-262): the service's price, the qty asked
checkoutSessionSaved(price, qty) ==
  LET quantity == IF qty > 0 THEN qty ELSE 1 IN
  [saved |-> TRUE,
   lines |-> <<[unitPrice |-> price, qty |-> quantity]>>,
   total |-> ToFixed2(price * quantity)]

\* createStaffPayHandler (part_001:465-510): the price of the catalog item
staffPaySaved(price) ==
  IF price <= 0 THEN NothingSaved
  ELSE [saved |-> TRUE,
        lines |-> <<[unitPrice |-> ToFixed2(price), qty |-> 1]>>,
        total |-> ToFixed2(price)]

\* /api/cayman/create-session (part_007:333-349): the cart items with a price.
\* item.price is in cents: priceCents / 100 is price.cents * 10 thousandths
normalizedItems(cart) == SelectSeq(cart, LAMBDA item : item.priceCents > 0)

RECURSIVE totalCents(_)
\* part_007:359: the sum of priceCents * qty
totalCents(items) ==
  IF items = <<>> THEN 0
  ELSE Head(items).priceCents * (IF Head(items).qty > 0 THEN Head(items).qty ELSE 1)
         + totalCents(Tail(items))

\* /api/cayman/create-session (part_007:351-403); priceCents is kept in tenths of
\* a cent, which are thousandths of the currency unit
createSessionSaved(cart) ==
  IF normalizedItems(cart) = <<>> \/ totalCents(normalizedItems(cart)) <= 0 THEN NothingSaved
  ELSE [saved |-> TRUE,
        lines |-> [i \in 1..Len(normalizedItems(cart)) |->
                     [unitPrice |-> ToFixed2(normalizedItems(cart)[i].priceCents),
                      qty |-> IF normalizedItems(cart)[i].qty > 0
                                THEN normalizedItems(cart)[i].qty ELSE 1]],
        total |-> ToFixed2(totalCents(normalizedItems(cart)))]

CreateInputs ==
  LET
    \* prices in thousandths: 19.99, 25.00, 0.004, 19.994, 0.107, and none
    Prices == {19990, 25000, 4, 19994, 107, 0}
    Quantities == {0, 1, 2, 3}
    CartItems == {[priceCents |-> pr, qty |-> q] : pr \in {1999 * 10, 4, 107, 0}, q \in {0, 1, 3}}
  IN
    {[path |-> "checkout", price |-> pr, qty |-> q, cart |-> <<>>] :
       pr \in Prices \ {0}, q \in Quantities}
      \cup {[path |-> "staff", price |-> pr, qty |-> 1, cart |-> <<>>] : pr \in Prices}
      \cup {[path |-> "storefront", price |-> 0, qty |-> 0, cart |-> <<a>>] : a \in CartItems}
      \cup {[path |-> "storefront", price |-> 0, qty |-> 0, cart |-> <<a, b>>] :
              a \in CartItems, b \in CartItems}

Create ==
  /\ ~fnOut.done
  /\ fnOut' = Merge(IF fnIn.path = "checkout" THEN checkoutSessionSaved(fnIn.price, fnIn.qty)
                    ELSE IF fnIn.path = "staff" THEN staffPaySaved(fnIn.price)
                    ELSE createSessionSaved(fnIn.cart),
                    [done |-> TRUE])
  /\ UNCHANGED <<fnIn, sessionVars, signedVars, httpVars>>

----
\* The sources of a notification (webhooks.ts:207-219)

RECURSIVE parseRawQuery(_)
\* parseRawQuery, on the (key, value) entries URLSearchParams finds in the raw
\* query: entries with an empty value are left out, a later entry of a key wins
parseRawQuery(entries) ==
  IF entries = <<>> THEN <<>>
  ELSE LET e == entries[Len(entries)]
           before == parseRawQuery(SubSeq(entries, 1, Len(entries) - 1))
       IN IF e[2] = <<>> THEN before ELSE Merge(before, e[1] :> Str(e[2]))

RECURSIVE CutAt(_, _)
\* s up to the first character of stops
CutAt(s, stops) ==
  IF s = <<>> \/ Head(s) \in stops THEN <<>> ELSE <<Head(s)>> \o CutAt(Tail(s), stops)

\* normalizeSessionId: raw.replace(/[?#].*$/u, "").replace(/&.*$/u, "")
normalizeSessionId(v) ==
  IF Falsy(extractFirstString(v)) THEN Undef
  ELSE IF CutAt(CutAt(extractFirstString(v).s, {"?", "#"}), {"&"}) = <<>> THEN Undef
  ELSE Str(CutAt(CutAt(extractFirstString(v).s, {"?", "#"}), {"&"}))

\* webhooks.ts:211: { ...rawQueryPayload, ...queryPayload, ...bodyPayload }
mergedPayload(rawQueryPayload, queryPayload, bodyPayload) ==
  Merge(Merge(rawQueryPayload, queryPayload), bodyPayload)

\* webhooks.ts:213-217: the session id, from the sources one after the other
\* (the notifications modelled carry no customfield-data and no customfield)
sessionIdOf(rawQueryPayload, queryPayload, bodyPayload) ==
  Coalesce(normalizeSessionId(Field(rawQueryPayload, "sessionId")),
    Coalesce(normalizeSessionId(Field(queryPayload, "sessionId")),
      Coalesce(normalizeSessionId(Field(bodyPayload, "sessionId")),
               normalizeSessionId(Field(mergedPayload(rawQueryPayload, queryPayload, bodyPayload),
                                        "sessionId")))))

\* req.query: the parsed query of the same URL, empty values included
parsedQuery(entries) == [k \in {e[1] : e \in Range(entries)} |->
                           Str((CHOOSE e \in Range(entries) : e[1] = k)[2])]

SourceInputs ==
  LET
    SidS1 == <<"s","1">>
    SidS2 == <<"s","2">>
    \* the query strings of the requests, as their (key, value) entries; no key twice
    UrlQueries ==
      {<<>>, << <<"sessionId", SidS1>> >>, << <<"sessionId", SidS2>> >>,
       << <<"sessionId", SidS1>>, <<"result-code", <<"0","0">> >> >>,
       << <<"sessionId", <<>> >>, <<"result-code", <<"0","5">> >> >>,
       << <<"sessionId", SidS1 \o <<"#","x">> >>, <<"transaction-id", <<"T","X","1">> >> >>,
       << <<"result-code", <<>> >>, <<"sessionId", <<" ">> \o SidS2 >> >>}
    BodyPayloads ==
      {<<>>, ("sessionId" :> Str(SidS1)), ("sessionId" :> Str(SidS2)),
       ("sessionId" :> Str(SidS2)) @@ ("result-code" :> Str(<<"0","5">>)),
       ("result-code" :> S00), ("result-code" :> Str(<<>>)) @@ ("success" :> Bool(TRUE)),
       ("sessionId" :> Str(<<" "," ">>)) @@ ("transaction-id" :> STx2),
       ("transaction-id" :> STx2) @@ ("result-code" :> Str(<<"0","5">>))}
  IN
    {[url |-> u, body |-> b] : u \in UrlQueries, b \in BodyPayloads}

ReadSources ==
  /\ ~fnOut.done
  /\ fnOut' = [done |-> TRUE,
                payload |-> mergedPayload(parseRawQuery(fnIn.url), parsedQuery(fnIn.url),
                                          fnIn.body),
                sessionId |-> sessionIdOf(parseRawQuery(fnIn.url), parsedQuery(fnIn.url),
                                          fnIn.body)]
  /\ UNCHANGED <<fnIn, sessionVars, signedVars, httpVars>>

----
\* The cart of the sale-checkout call (webhooks.ts:291-309, 342-350)

\* the locked sessions: one line or two, and the total the session was saved with
CartInputs ==
  LET
    \* the types a line is saved with: none (the hosted checkout), the staff
    \* catalogue's Service, Product and Package, and what a storefront cart names
    LineTypes ==
      {Undef, Str(<<"S","e","r","v","i","c","e">>), Str(<<"P","r","o","d","u","c","t">>),
       Str(<<"P","a","c","k","a","g","e">>),
       Str(<<"p","r","i","c","i","n","g","o","p","t","i","o","n">>),
       Str(<<"p","r","o","d","u","c","t">>), Str(<<"c","l","a","s","s">>)}
    CartLines ==
      {IF ty = Undef
         THEN [productId |-> <<"4","2">>, name |-> "Yoga", unitPrice |-> price, qty |-> qty]
         ELSE [productId |-> <<"4","2">>, name |-> "Yoga", unitPrice |-> price, qty |-> qty,
               type |-> ty] :
       ty \in LineTypes, price \in {500, 1999}, qty \in {1, 2}}
  IN
    {[lines |-> ls, total |-> 3998] : ls \in {<<a>> : a \in CartLines}}
      \cup {[lines |-> <<a, b>>, total |-> 2499] : a \in CartLines, b \in {c \in CartLines : c.qty = 1}}

\* the cart and the total processCaymanNotification hands to checkoutShoppingCart
CheckoutCart ==
  /\ ~fnOut.done
  /\ fnOut' = [done |-> TRUE, Items |-> cartItems(fnIn.lines), Total |-> fnIn.total]
  /\ UNCHANGED <<fnIn, sessionVars, signedVars, httpVars>>

----
\* The customer of a sale (services/mbo: findClientByEmail, addClient, getOrCreateClient)

NoClient == [found |-> FALSE]

\* findClientByEmail, on the Clients array GET /client/clients?SearchText=email
\* answers with: the first client whose Email equals email in lower case, else
\* the first client of the array, else undefined
findClientByEmail(email, clients) ==
  IF Falsy(email) THEN NoClient
  ELSE IF \E i \in 1..Len(clients) :
            ToLowerCase(Coalesce(Field(clients[i], "Email"), Str(<<>>)).s) = ToLowerCase(email.s)
    THEN Merge(clients[CHOOSE i \in 1..Len(clients) :
                 /\ ToLowerCase(Coalesce(Field(clients[i], "Email"), Str(<<>>)).s)
                      = ToLowerCase(email.s)
                 /\ \A j \in 1..(i - 1) :
                      ToLowerCase(Coalesce(Field(clients[j], "Email"), Str(<<>>)).s)
                        # ToLowerCase(email.s)],
               [found |-> TRUE, created |-> FALSE])
  ELSE IF clients # <<>> THEN Merge(clients[1], [found |-> TRUE, created |-> FALSE])
  ELSE NoClient

\* addClient: POST /client/addclient answers with the client made for the email
addClient(email, newId) == [Id |-> newId, Email |-> email, found |-> TRUE, created |-> TRUE]

\* getOrCreateClient: existing?.Id ? existing : addClient(...)
getOrCreateClient(email, clients, newId) ==
  IF findClientByEmail(email, clients).found
       /\ ~Falsy(Field(findClientByEmail(email, clients), "Id"))
    THEN findClientByEmail(email, clients)
    ELSE addClient(email, newId)

\* the session customer's email and the clients the search answers with
ClientInputs ==
  LET
    Mail(c) == Str(<<c, "@", "x">>)
    Found ==
      {("Id" :> Str(<<"1">>)) @@ ("Email" :> Mail("a")),
       ("Id" :> Str(<<"2">>)) @@ ("Email" :> Mail("b")),
       ("Id" :> Str(<<"3">>)) @@ ("Email" :> Mail("A")),
       ("Id" :> Str(<<"4">>)),
       ("Email" :> Mail("a"))}
  IN
    {[email |-> e, clients |-> cs] :
       e \in {Mail("a"), Mail("A"), Mail("c")},
       cs \in {<<>>} \cup {<<c>> : c \in Found} \cup {<<c, d>> : c \in Found, d \in Found}}

\* processCaymanNotification resolves the customer of the sale (webhooks.ts:279-280)
ResolveClient ==
  /\ ~fnOut.done
  /\ fnOut' = [done |-> TRUE,
                client |-> getOrCreateClient(fnIn.email, fnIn.clients, AddedClientId),
                resolvedClientId |->
                  Field(getOrCreateClient(fnIn.email, fnIn.clients, AddedClientId), "Id")]
  /\ UNCHANGED <<fnIn, sessionVars, signedVars, httpVars>>

----
\* A creation path and the gateway's hosted payment (part_002:198-297,
\* part_001:486-570, part_007:385-445)

\* The store and the HTTP status a creation path leaves, given how
\* createHostedPayment ended: with a redirect URL ("redirect"), ok without a
\* redirect URL ("nourl"), rejected ("rejected") or thrown ("throws").
\* The hosted checkout saves the session after the call; the staff and the
\* storefront paths save it before the call and never take it out again.
createAttempt(path, hosted, st, session) ==
  IF path = "checkout"
    THEN IF hosted = "redirect" THEN [store |-> save(st, session), http |-> 201]
         ELSE [store |-> st, http |-> 402]
    ELSE [store |-> save(st, session), http |-> IF hosted = "redirect" THEN 200 ELSE 502]

\* the attempts: the path, the session to be saved, the sessions saved before,
\* and how createHostedPayment ends
CreationInputs ==
  {[path |-> path, hosted |-> hosted, id |-> id, clientId |-> clientId, store |-> st] :
     path \in {"checkout", "staff", "storefront"},
     hosted \in {"redirect", "nourl", "rejected", "throws"},
     id \in {<<"s","1">>},
     clientId \in {Undef, StoredClientId},
     st \in {<<>>, save(<<>>, NewSession(<<"s","2">>, Undef)),
             save(<<>>, NewSession(<<"s","2">>, StoredClientId))}}

CreateAttempt ==
  /\ ~fnOut.done
  /\ fnOut' = Merge(createAttempt(fnIn.path, fnIn.hosted, fnIn.store,
                                  NewSession(fnIn.id, fnIn.clientId)),
                    [done |-> TRUE])
  /\ UNCHANGED <<fnIn, sessionVars, signedVars, httpVars>>

----
\* The shared Mindbody client of services/http.ts: mbo, its response
\* interceptor and refreshMindbodyUserToken. A token is a number: 0 is the
\* token of the environment at start, n the token the n-th issue request returns.

Reqs == {"q1", "q2"}
MaxIssue == 2

\* a request: where it stands, how often it was sent, its _retry flag, the
\* token of its Authorization header, and the issue request it waits for
NoRequest == [pc |-> "idle", sent |-> 0, retry |-> FALSE, auth |-> 0, refresh |-> 0]

MboStart ==
  [token |-> 0, refreshing |-> FALSE, issues |-> 0, pending |-> 0,
   req |-> [r \in Reqs |-> NoRequest]]

\* refreshMindbodyUserToken starting an issue request whatever is pending
RefreshPendingNever(m) == FALSE

\* http.ts:14: refreshingMindbodyToken is set
RefreshPending(m) == m.refreshing

\* mbo.get / mbo.post: the request interceptor puts the environment's token
\* into the Authorization header (http.ts:54-92) and the request is sent
MboSend(r) ==
  /\ mbo.req[r].pc = "idle"
  /\ mbo' = [mbo EXCEPT !.req[r] = [@ EXCEPT !.pc = "sent", !.sent = 1, !.auth = mbo.token]]
  /\ UNCHANGED <<sessionVars, signedVars, pureVars, svc>>

\* The response interceptor (http.ts:99-123): a response that is not a 401, or a
\* 401 for a request already re-sent, settles the request; a first 401 sets
\* _retry and awaits refreshMindbodyUserToken (http.ts:13-29), which starts an
\* issue request unless one is pending.
MboRespond(r, status) ==
  /\ mbo.req[r].pc = "sent"
  /\ IF status = 200 THEN mbo' = [mbo EXCEPT !.req[r].pc = "ok"]
     ELSE IF status # 401 \/ mbo.req[r].retry THEN mbo' = [mbo EXCEPT !.req[r].pc = "failed"]
     ELSE IF RefreshPending(mbo)
       THEN mbo' = [mbo EXCEPT !.req[r] = [@ EXCEPT !.pc = "wait", !.retry = TRUE,
                                                     !.refresh = mbo.issues]]
     ELSE /\ mbo.issues < MaxIssue
          /\ mbo' = [mbo EXCEPT !.refreshing = TRUE, !.issues = @ + 1, !.pending = @ + 1,
                                 !.req[r] = [@ EXCEPT !.pc = "wait", !.retry = TRUE,
                                                      !.refresh = mbo.issues + 1]]
  /\ UNCHANGED <<sessionVars, signedVars, pureVars, svc>>

\* issueStaffUserToken returns or throws (http.ts:16-25): the token goes to the
\* environment, refreshingMindbodyToken is cleared, and every request that
\* awaited the refresh is re-sent through the request interceptor (http.ts:113-118)
\* or rejected (http.ts:119-121)
MboIssueDone(ok) ==
  /\ mbo.pending > 0
  /\ mbo' = [mbo EXCEPT
               !.pending = @ - 1,
               !.refreshing = FALSE,
               !.token = IF ok THEN mbo.issues ELSE @,
               !.req = [r \in Reqs |->
                          IF mbo.req[r].pc # "wait" THEN mbo.req[r]
                          ELSE IF ok
                            THEN [mbo.req[r] EXCEPT !.pc = "sent", !.sent = @ + 1,
                                                    !.auth = mbo.issues]
                          ELSE [mbo.req[r] EXCEPT !.pc = "failed"]]]
  /\ UNCHANGED <<sessionVars, signedVars, pureVars, svc>>

NextMbo ==
  \/ \E r \in Reqs : MboSend(r)
  \/ \E r \in Reqs, status \in {200, 401, 500} : MboRespond(r, status)
  \/ \E ok \in BOOLEAN : MboIssueDone(ok)

----
\* The Mindbody service of mindbody/service.ts with MINDBODY_USER_TOKEN
\* configured (token 0) and the source credentials the environment must have
\* (env.ts: must("MINDBODY_SOURCE_NAME"), must("MINDBODY_SOURCE_PASSWORD"))

\* cached: cachedUserToken (-1: undefined); env: process.env.MINDBODY_USER_TOKEN;
\* issuing: issuingUserTokenPromise is set; issues: requests made to
\* /usertoken/issue; rejected: a request was rejected with 401
SvcStart ==
  [made |-> FALSE, env |-> 0, cached |-> -1, issuing |-> FALSE, issues |-> 0,
   rejected |-> FALSE, req |-> [r \in Reqs |-> NoRequest]]

\* createMindbodyService (index.ts:10): cachedUserToken is the environment's
\* token (service.ts:216) and ensureUserToken(true) is called (service.ts:374),
\* which skips the cached token and calls issueUserToken (service.ts:318-342)
SvcCreate ==
  /\ ~svc.made
  /\ svc' = [svc EXCEPT !.made = TRUE, !.cached = svc.env, !.issuing = TRUE, !.issues = @ + 1]
  /\ UNCHANGED <<sessionVars, signedVars, pureVars, mbo>>

\* mbGet / mbPost: the request interceptor sends the environment's token
\* (client.ts:212-217)
SvcSend(r) ==
  /\ svc.made
  /\ svc.req[r].pc = "idle"
  /\ svc' = [svc EXCEPT !.req[r] = [@ EXCEPT !.pc = "sent", !.sent = 1, !.auth = svc.env]]
  /\ UNCHANGED <<sessionVars, signedVars, pureVars, mbo>>

\* the response interceptor (service.ts:344-372): a first 401 awaits
\* ensureUserToken(true), any other response settles the request
SvcRespond(r, status) ==
  /\ svc.req[r].pc = "sent"
  /\ IF status = 200 THEN svc' = [svc EXCEPT !.req[r].pc = "ok"]
     ELSE IF status # 401 \/ svc.req[r].retry
       THEN svc' = [svc EXCEPT !.req[r].pc = "failed", !.rejected = @ \/ status = 401]
     ELSE IF svc.issuing
       THEN svc' = [svc EXCEPT !.rejected = TRUE,
                               !.req[r] = [@ EXCEPT !.pc = "wait", !.refresh = svc.issues]]
     ELSE /\ svc.issues < MaxIssue
          /\ svc' = [svc EXCEPT !.rejected = TRUE, !.issuing = TRUE, !.issues = @ + 1,
                                 !.req[r] = [@ EXCEPT !.pc = "wait", !.refresh = svc.issues + 1]]
  /\ UNCHANGED <<sessionVars, signedVars, pureVars, mbo>>

\* issueUserToken returns (setUserToken, service.ts:219-224, 262) or throws
\* (service.ts:333-336: cachedUserToken = undefined); the requests that awaited
\* it are re-sent with _mbRetriedWithFreshToken set, or rejected
SvcIssueDone(ok) ==
  /\ svc.issuing
  /\ svc' = [svc EXCEPT
               !.issuing = FALSE,
               !.env = IF ok THEN svc.issues ELSE @,
               !.cached = IF ok THEN svc.issues ELSE -1,
               !.req = [r \in Reqs |->
                          IF svc.req[r].pc # "wait" THEN svc.req[r]
                          ELSE IF ok
                            THEN [svc.req[r] EXCEPT !.pc = "sent", !.sent = @ + 1,
                                                    !.retry = TRUE, !.auth = svc.issues]
                          ELSE [svc.req[r] EXCEPT !.pc = "failed"]]]
  /\ UNCHANGED <<sessionVars, signedVars, pureVars, mbo>>

NextSvc ==
  \/ SvcCreate
  \/ \E r \in Reqs : SvcSend(r)
  \/ \E r \in Reqs, status \in {200, 401, 500} : SvcRespond(r, status)
  \/ \E ok \in BOOLEAN : SvcIssueDone(ok)

----
\* Specifications

InitProgram ==
  /\ store = <<>>
  /\ pc = [h \in Handlers |-> "idle"]
  /\ hreq = [h \in Handlers |-> NoReq]
  /\ locked = [h \in Handlers |-> NoSession]
  /\ resolved = [h \in Handlers |-> Undef]
  /\ hist = [h \in Handlers |-> NoHist]
  /\ saleOk = [id \in SessionIds |-> 0]
  /\ last = NoLast
  /\ seen = [ep \in Endpoints |-> {}]
  /\ timers = [ep \in Endpoints |-> [id \in EventIds |-> 0]]
  /\ spc = [w \in SignedHandlers |-> "idle"]
  /\ sreq = [w \in SignedHandlers |-> NoEvent]
  /\ scalls = [w \in SignedHandlers |-> NoCalls]
  /\ window = [ep \in Endpoints |-> [id \in EventIds |-> "never"]]
  /\ onceLog = [ep \in Endpoints |-> [id \in EventIds |-> 0]]
  /\ slast = NoSLast
  /\ mbo = MboStart
  /\ svc = SvcStart

Init ==
  /\ InitProgram
  /\ fnIn = <<>>
  /\ fnOut = NotCalled

\* the session pipeline: /webhook/cayman, the checkout return, session creation
Next ==
  \/ \E id \in SessionIds : CreateSession(id)
  \/ \E h \in Handlers, r \in Requests(Payloads), sig \in BOOLEAN :
       Webhook(h, r[1], r[2], sig)
  \/ \E h \in Handlers, r \in Requests(QueryPayloads) : CheckoutReturn(h, r[1], r[2])
  \/ \E h \in Handlers, outcome \in {"found", "added", "none", "throw"} :
       ClientDone(h, outcome)
  \/ \E h \in Handlers, ok \in BOOLEAN : CheckoutDone(h, ok)

Spec == Init /\ [][Next]_vars

\* the signed endpoints /webhooks/cayman and the idempotency guard
NextSigned ==
  \/ \E w \in SignedHandlers, ep \in Endpoints, d \in Deliveries :
       Deliver(w, ep, d[1], d[2], d[3])
  \/ \E w \in SignedHandlers, ok \in BOOLEAN : TokenDone(w, ok)
  \/ \E w \in SignedHandlers, ok \in BOOLEAN : UpsertDone(w, ok)
  \/ \E w \in SignedHandlers, ok \in BOOLEAN : SaleDone(w, ok)
  \/ \E ep \in Endpoints, id \in EventIds : Expire(ep, id)

\* the session pipeline when every downstream call eventually returns or throws
\* and the process keeps running; the notifications are a success report with a
\* transaction id and a failure report
LivePayloads == {PaySuccess, PayFail}

NextLive ==
  \/ \E id \in SessionIds : CreateSession(id)
  \/ \E h \in Handlers, r \in Requests(LivePayloads) : Webhook(h, r[1], r[2], FALSE)
  \/ \E h \in Handlers, r \in Requests(LivePayloads) : CheckoutReturn(h, r[1], r[2])
  \/ \E h \in Handlers, outcome \in {"found", "added", "none", "throw"} :
       ClientDone(h, outcome)
  \/ \E h \in Handlers, ok \in BOOLEAN : CheckoutDone(h, ok)

SpecLive ==
  /\ Init
  /\ [][NextLive]_vars
  /\ \A h \in Handlers :
       /\ WF_vars(\E outcome \in {"found", "added", "none", "throw"} : ClientDone(h, outcome))
       /\ WF_vars(\E ok \in BOOLEAN : CheckoutDone(h, ok))

SpecSigned == Init /\ [][NextSigned]_vars

\* a function called on its own, its arguments drawn from inputs
InitPure(inputs) ==
  /\ InitProgram
  /\ fnIn \in inputs
  /\ fnOut = NotCalled

SpecMbo == Init /\ [][NextMbo]_vars

SpecSvc == Init /\ [][NextSvc]_vars

SpecClassify == InitPure(ClassifyInputs) /\ [][Classify]_vars

SpecVerify == InitPure(VerifyInputs) /\ [][Verify]_vars

SpecUpdate == InitPure(UpdateInputs) /\ [][Update]_vars

SpecCreate == InitPure(CreateInputs) /\ [][Create]_vars

SpecClient == InitPure(ClientInputs) /\ [][ResolveClient]_vars

SpecCreation == InitPure(CreationInputs) /\ [][CreateAttempt]_vars

SpecCart == InitPure(CartInputs) /\ [][CheckoutCart]_vars

SpecSources == InitPure(SourceInputs) /\ [][ReadSources]_vars

----
\* Claims about the session pipeline (specification Spec)

AllowedMoves ==
  {<<"created", "processing">>, <<"created", "failed">>,
   <<"processing", "paid">>, <<"processing", "failed">>}

\* C1: a session's status only moves along created, processing, then paid or
\* failed; it never leaves failed and never leaves paid.
C1_StatusMonotone ==
  [][\A id \in DOMAIN store :
       store'[id].status # store[id].status
         => <<store[id].status, store'[id].status>> \in AllowedMoves]_vars

\* C2 as claimed: a fulfilment of a created session that a second successful
\* notification overlapped ends with exactly one sale-checkout call made.
C2_ExactlyOneSale ==
  (last.overlapped /\ last.start = "created" /\ last.req.kind = "webhook")
    => last.sale = 1

\* C2 as amended: of two successful notifications handled concurrently for a
\* created session, the one that did not take the created -> processing
\* transition makes no downstream call and reports processing or already_paid,
\* and the one that took it makes at most one sale-checkout call: exactly one
\* when it holds a client id, none when customer resolution failed.
C2_AtMostOneSale ==
  /\ (last.peers # {} /\ last.req.kind = "webhook" /\ isSuccess(last.req.payload))
       => /\ last.result.status \in {"processing", "already_paid"}
          /\ last.client = 0
          /\ last.sale = 0
  /\ (last.overlapped /\ last.start = "created" /\ last.req.kind = "webhook")
       => /\ last.sale <= 1
          /\ (last.sale = 1 <=> ~Falsy(last.resolved))
  /\ \A h \in Handlers, g \in Handlers :
       (h # g /\ pc[h] # "idle" /\ pc[g] # "idle") => hreq[h].sid # hreq[g].sid

C2_Witness ==
  /\ last.overlapped
  /\ last.start = "created"
  /\ last.req.kind = "webhook"
  /\ last.sale = 1
  /\ last.result.status = "paid"

\* C3: for every session at most one sale-checkout call has returned
\* successfully, and the session is paid exactly when one has.
C3_PaidIffOneSale ==
  \A id \in DOMAIN store :
    /\ saleOk[id] <= 1
    /\ (store[id].status = "paid" <=> saleOk[id] = 1)

C3_Witness ==
  \E id \in DOMAIN store :
    /\ saleOk[id] = 1
    /\ store[id].status = "paid"
    /\ last.result.status = "already_paid"

\* C4: a notification delivered for a failed session reports failed and makes no
\* customer-resolution or sale-checkout call.
C4_FailedIsTerminal ==
  (last.req.kind = "webhook" /\ last.start = "failed")
    => /\ last.result.status = "failed"
       /\ last.client = 0
       /\ last.sale = 0

\* C6: a webhook request whose signature header is not the HMAC of its body is
\* answered with HTTP 400 and causes no downstream call.
C6_BadSignatureRejected ==
  (last.req.kind = "webhook" /\ ~last.req.sig)
    => /\ last.http = 400
       /\ last.client = 0
       /\ last.sale = 0

\* C7: a notification or a checkout return for a paid session leaves every field
\* of the session as it is and makes no downstream call; the notification's
\* result is already_paid.
C7_PaidIsImmutable ==
  /\ [](last.start = "paid"
          => /\ last.client = 0
             /\ last.sale = 0
             /\ (last.req.kind = "webhook" => last.result.status = "already_paid")
             /\ (last.req.kind = "return" => last.result = NoResult /\ last.http = 200))
  /\ [][\A id \in DOMAIN store : store[id].status = "paid" => store'[id] = store[id]]_vars
  /\ [][\A id \in DOMAIN store :
          (last' # last /\ last'.start = "paid" /\ last'.req.sid = Str(id))
            => store' = store /\ pc' = pc]_vars

C7_Witness ==
  /\ last.start = "paid"
  /\ last.req.kind = "webhook"
  /\ last.req.payload = PayFail
  /\ last.result.status = "already_paid"

\* C9: a notification that is not classified as successful, for a session in
\* status created, moves the session from created straight to failed, reports
\* failed and makes no customer-resolution or sale-checkout call.
C9_FailureGoesStraightToFailed ==
  /\ []((last.start = "created" /\ ~isSuccess(last.req.payload) /\ last.req.kind # "none")
          => /\ last.result = Result("failed", "Gateway reported failure")
             /\ last.client = 0
             /\ last.sale = 0)
  /\ [][\A id \in DOMAIN store :
          (last' # last /\ last'.start = "created" /\ last'.req.sid = Str(id)
             /\ ~isSuccess(last'.req.payload))
            => /\ store[id].status = "created"
               /\ store'[id].status = "failed"
               /\ pc' = pc]_vars

C9_Witness ==
  /\ last.start = "created"
  /\ last.req.kind = "webhook"
  /\ last.req.payload = PayFail
  /\ last.result.status = "failed"
  /\ store[last.req.sid.s].status = "failed"

\* C11: a fulfilment whose session has a clientId never calls find-or-create and
\* its sale uses that clientId; otherwise the sale is called only after
\* find-or-create returned an id that is stored on the session; when no id is
\* obtained the session becomes failed and no sale-checkout call is made.
C11_CustomerResolvedBeforeSale ==
  /\ [](\A h \in Handlers :
          pc[h] = "checkout"
            => IF ~Falsy(Field(locked[h], "clientId"))
                 THEN /\ hist[h].client = 0
                      /\ CheckoutCall(h).ClientId = locked[h].clientId
                 ELSE /\ hist[h].client = 1
                      /\ ~Falsy(CheckoutCall(h).ClientId)
                      /\ Field(store[hreq[h].sid.s], "clientId") = CheckoutCall(h).ClientId)
  /\ [][(last' # last /\ last'.client = 1 /\ Falsy(last'.resolved))
          => /\ last'.sale = 0
             /\ last'.result.status = "failed"
             /\ store'[last'.req.sid.s].status = "failed"]_vars
  /\ [](last.client = 0 /\ last.sale = 1 => ~Falsy(last.resolved))

C11_Witness ==
  \E h \in Handlers :
    /\ pc[h] = "checkout"
    /\ hist[h].client = 1
    /\ Falsy(Field(locked[h], "clientId"))
    /\ store[hreq[h].sid.s].clientId = FoundClientId
    /\ CheckoutCall(h).ClientId = FoundClientId

\* C12: a notification that names no session (missing_session) or a session that
\* is not in the store (no_session) leaves the store as it is, with no session
\* created or modified, and makes no downstream call.
C12_UnknownSessionTouchesNothing ==
  /\ [](last.result.status \in {"missing_session", "no_session"}
          => /\ last.client = 0
             /\ last.sale = 0
             /\ last.start = "absent")
  /\ [][(last' # last /\ last'.result.status \in {"missing_session", "no_session"})
          => /\ store' = store
             /\ pc' = pc
             /\ (last'.result.status = "no_session" => last'.req.sid.s \notin DOMAIN store')]_vars

C12_Witness ==
  /\ last.req.kind = "webhook"
  /\ last.result.status = "no_session"
  /\ last.req.sid = Str(GhostId)
  /\ DOMAIN store = SessionIds
  /\ GhostId \notin DOMAIN store

\* C15: a stored session's id, lines, total and gateway orderId are those of its
\* creation in every state, and a clientId that is set is never cleared or
\* changed afterwards.
C15_CreationFieldsAndClientIdKept ==
  /\ [](\A id \in DOMAIN store :
          /\ store[id].id = NewSession(id, Undef).id
          /\ store[id].lines = NewSession(id, Undef).lines
          /\ store[id].total = NewSession(id, Undef).total
          /\ store[id].cayman.orderId = NewSession(id, Undef).cayman.orderId)
  /\ [][\A id \in DOMAIN store :
          ~Falsy(Field(store[id], "clientId"))
            => Field(store'[id], "clientId") = store[id].clientId]_vars

\* a session that got its clientId from find-or-create, failed at the sale, and
\* was fulfilled again by a later notification
C15_Witness ==
  \E h \in Handlers :
    /\ pc[h] = "checkout"
    /\ hist[h].start = "failed"
    /\ hist[h].client = 0
    /\ store[hreq[h].sid.s].clientId \in {FoundClientId, AddedClientId}
    /\ store[hreq[h].sid.s].total = 3998

\* C17: a checkout return for a session that is paid or failed does not run the
\* notification pipeline: it has no notification result, makes no downstream
\* call and leaves the session as it is.
C17_ReturnSkipsTerminalSessions ==
  /\ [](last.req.kind = "return" /\ last.start \in {"paid", "failed"}
          => /\ last.result = NoResult
             /\ last.client = 0
             /\ last.sale = 0)
  /\ [][\A h \in Handlers, id \in DOMAIN store :
          (pc[h] = "idle" /\ pc'[h] # "idle" /\ hreq'[h].kind = "return"
             /\ hreq'[h].sid = Str(id))
            => store[id].status \notin {"paid", "failed"}]_vars

----
\* Claims about the signed endpoints and the idempotency guard (SpecSigned)

\* C5: a verified delivery of an event id that was already delivered and whose
\* TTL removal has not fired is answered as deduped, with no downstream call.
C5_SecondDeliveryDeduped ==
  /\ (slast.verified /\ slast.win = "open" /\ slast.id \in EventIds)
       => /\ slast.body = "deduped"
          /\ slast.http = 200
          /\ slast.calls = 0
  /\ \A w \in SignedHandlers : spc[w] # "idle" => scalls[w].win # "open"

C5_Witness ==
  /\ slast.verified
  /\ slast.win = "open"
  /\ slast.body = "deduped"
  /\ \E w \in SignedHandlers : spc[w] = "sale" /\ sreq[w].id = slast.id /\ sreq[w].ep = slast.ep

\* C8: between the first once(k) and the firing of k's TTL removal exactly one
\* call has returned true and every other call returns false; a call made when k
\* was never seen, or after the removal, returns true.
C8_OnceExactlyOneTrue ==
  /\ \A ep \in Endpoints, id \in EventIds :
       /\ window[ep][id] = "open" => onceLog[ep][id] = 1
       /\ window[ep][id] # "open" => onceLog[ep][id] = 0
  /\ slast.once # "none" => (slast.once = "false" <=> slast.win = "open")
  /\ \A w \in SignedHandlers :
       spc[w] # "idle" => (scalls[w].once = "true" /\ scalls[w].win # "open")

C8_Witness ==
  /\ slast.once = "true"
  /\ slast.win = "closed"
  /\ window[slast.ep][slast.id] = "open"
  /\ onceLog[slast.ep][slast.id] = 1

----
\* Claims about determineSuccess (SpecClassify)

\* the classification as claimed: the lenient fallback applies only when success
\* flag, result code and textual result are all absent
ClaimedSuccess(payload) ==
  \/ successFlag(payload) = Bool(TRUE)
  \/ (IsString(normalizedCode(payload)) /\ normalizedCode(payload).s \in successCodes)
  \/ (IsString(loweredResult(payload)) /\ loweredResult(payload).s \in successTexts)
  \/ /\ successFlag(payload) = Undef
     /\ Falsy(normalizedCode(payload))
     /\ Falsy(loweredResult(payload))
     /\ hasTransactionId(payload)

\* C10: a notification is classified as successful exactly when ClaimedSuccess
\* says so; a non-success textual result with a transaction id is a failure.
C10_ClassifiedAsClaimed == fnOut.done => (fnOut.isSuccess <=> ClaimedSuccess(fnIn))

----
\* Claims about hmacVerify (SpecVerify)

\* an even number of hexadecimal digits
WellFormedHex(s) == Len(s) % 2 = 0 /\ \A i \in 1..Len(s) : HexValue(s[i]) >= 0

\* C13: hmacVerify returns false when the header is missing or empty, is no
\* well-formed hexadecimal or decodes to another length than the digest; it
\* returns true only when the header is the hexadecimal encoding of the
\* HMAC-SHA256 of raw under the secret.
C13_VerifiesExactSignatureOnly ==
  fnOut.done
    => (fnOut.ret <=> /\ IsString(fnIn.header)
                      /\ WellFormedHex(fnIn.header.s)
                      /\ Len(fnIn.header.s) = 2 * DigestLen
                      /\ ToLowerCase(fnIn.header.s) = HexEncode(Hmac(fnIn.raw, Secret)))

----
\* Claims about update (SpecUpdate)

\* C14: update(id, patch) on a stored session sets the top-level fields the patch
\* supplies and keeps the others, merges the gateway metadata key by key so that
\* a metadata field the patch does not supply keeps its value, and leaves every
\* other session as it is; on an unknown id it returns undefined and the store
\* has no new entry.
C14_UpdateMergesPatch ==
  fnOut.done =>
    LET id == fnIn.id
        patch == fnIn.patch
    IN
    IF ~Has(fnIn.store, id)
      THEN fnOut.store = fnIn.store /\ fnOut.ret = Undef
      ELSE
        LET old == fnIn.store[id]
            new == fnOut.store[id]
        IN
        /\ DOMAIN fnOut.store = DOMAIN fnIn.store
        /\ \A other \in DOMAIN fnIn.store \ {id} : fnOut.store[other] = fnIn.store[other]
        /\ fnOut.ret = new
        /\ DOMAIN new = DOMAIN old \cup DOMAIN patch
        /\ \A k \in DOMAIN new \ {"cayman"} :
             new[k] = IF k \in DOMAIN patch THEN patch[k] ELSE old[k]
        /\ DOMAIN new.cayman = DOMAIN old.cayman \cup DOMAIN CaymanOf(patch)
        /\ \A k \in DOMAIN new.cayman :
             new.cayman[k] = IF k \in DOMAIN CaymanOf(patch) THEN patch.cayman[k]
                             ELSE old.cayman[k]

C14_Witness ==
  /\ fnOut.done
  /\ Has(fnIn.store, fnIn.id)
  /\ DOMAIN fnIn.store = SessionIds
  /\ fnIn.patch = [status |-> "paid", cayman |-> [transactionId |-> STx2]]
  /\ "auth" \in DOMAIN fnIn.store[fnIn.id].cayman
  /\ fnOut.store[fnIn.id].cayman.auth = fnIn.store[fnIn.id].cayman.auth
  /\ fnOut.store[fnIn.id].cayman.orderId = fnIn.store[fnIn.id].cayman.orderId
  /\ fnOut.store[fnIn.id].cayman.transactionId = STx2

----
\* Claims about the creation paths (SpecCreate)

\* C16: the session a creation path saves has a total equal to the sum over its
\* lines of unitPrice * qty, rounded to 2 decimal places.
C16_TotalIsSumOfLines ==
  (fnOut.done /\ fnOut.saved) => fnOut.total = ToFixed2(SumLines(fnOut.lines))

----
\* Claims about the sources of a notification (SpecSources)

\* the first of the values that is not undefined
FirstOf(a, b, c) == Coalesce(a, Coalesce(b, c))

\* C18: a field that several sources carry, the session id included, has the
\* value of the parsed body if it is there, else that of the parsed query, else
\* that of the raw query.
C18_BodyThenQueryThenRawQuery ==
  fnOut.done =>
    /\ \A k \in DOMAIN fnOut.payload :
         fnOut.payload[k] = FirstOf(Field(fnIn.body, k), Field(parsedQuery(fnIn.url), k),
                                     Field(parseRawQuery(fnIn.url), k))
    /\ fnOut.sessionId = FirstOf(normalizeSessionId(Field(fnIn.body, "sessionId")),
                                  normalizeSessionId(Field(parsedQuery(fnIn.url), "sessionId")),
                                  normalizeSessionId(Field(parseRawQuery(fnIn.url), "sessionId")))

----
\* Claims about the reference of the sale-checkout call (specification Spec)

\* the characters the reference is said to be made of
LettersDigitsHyphen ==
  Range(UpperChars) \cup Range(LowerChars) \cup DigitChars \cup {"-"}

\* the first source that is present: the notification's transaction id, else the
\* session's gateway order id, else the session id
ReferenceSource(h) ==
  FirstOf(extractTransactionId(hreq[h].payload), Field(CaymanOf(locked[h]), "orderId"),
          hreq[h].sid)

ReferenceFromFirstSource ==
  \A h \in Handlers : pc[h] = "checkout" =>
    CheckoutCall(h).paymentReference = sanitizeReference(ReferenceSource(h))

ReferenceAtMostThirty ==
  \A h \in Handlers : pc[h] = "checkout" =>
    /\ IsString(CheckoutCall(h).paymentReference)
    /\ Len(CheckoutCall(h).paymentReference.s) <= 30

ReferenceLettersDigitsHyphen ==
  \A h \in Handlers : pc[h] = "checkout" =>
    /\ IsString(CheckoutCall(h).paymentReference)
    /\ Range(CheckoutCall(h).paymentReference.s) \subseteq LettersDigitsHyphen

\* C19: the reference attached to the sale-checkout call is derived from the
\* notification's transaction id if one is present, else from the session's
\* gateway order id, else from the session id; it contains only ASCII letters,
\* digits and hyphens and is at most 30 characters long.
C19_ReferenceSanitized ==
  /\ ReferenceFromFirstSource
  /\ ReferenceLettersDigitsHyphen
  /\ ReferenceAtMostThirty

----
\* Claims about the gateway metadata of a session (specification Spec)

MetadataFields == {"transactionId", "auth", "last4"}

\* in every state, a session that is not paid has none of the three fields set
UnpaidHasNoMetadata ==
  \A id \in DOMAIN store : store[id].status # "paid" =>
    \A f \in MetadataFields : Field(CaymanOf(store[id]), f) = Undef

\* handler h's sale-checkout call returns successfully in this step
SaleSucceeds(h) ==
  /\ pc[h] = "checkout"
  /\ pc'[h] = "idle"
  /\ saleOk'[hreq[h].sid.s] = saleOk[hreq[h].sid.s] + 1

\* the step records the transaction id of the notification handler h serves
RecordsTransactionId(h) ==
  Field(CaymanOf(store'[hreq[h].sid.s]), "transactionId") = extractTransactionId(hreq[h].payload)

\* the step records the auth code and the card's last four digits, when supplied
RecordsAuthAndLast4(h) ==
  /\ extractAuthCode(hreq[h].payload) # Undef =>
       Field(CaymanOf(store'[hreq[h].sid.s]), "auth") = extractAuthCode(hreq[h].payload)
  /\ last4Of(extractMaskedPan(hreq[h].payload)) # Undef =>
       Field(CaymanOf(store'[hreq[h].sid.s]), "last4") = last4Of(extractMaskedPan(hreq[h].payload))

SuccessRecordsAuthAndLast4 ==
  [][\A h \in Handlers : SaleSucceeds(h) => RecordsAuthAndLast4(h)]_vars

SuccessRecordsGivenTransactionId ==
  [][\A h \in Handlers :
       (SaleSucceeds(h) /\ extractTransactionId(hreq[h].payload) # Undef)
         => RecordsTransactionId(h)]_vars

\* C20: when the sale-checkout call succeeds, the session's gateway metadata
\* records the notification's transaction id, and the auth code and the card's
\* last four digits when supplied; in every state where the session is not
\* paid, these three metadata fields are unset.
C20_MetadataRecordedOnSuccessOnly ==
  /\ []UnpaidHasNoMetadata
  /\ [][\A h \in Handlers :
          SaleSucceeds(h) => (RecordsTransactionId(h) /\ RecordsAuthAndLast4(h))]_vars

----
\* Claims about a session in status processing (specification Spec)

\* the handlers with a fulfilment of session id in flight
InFlight(id) == {h \in Handlers : pc[h] # "idle" /\ hreq[h].sid = Str(id)}

\* the step answers a request for session id at once, starting no fulfilment
AnsweredAtOnce(id) ==
  /\ last' # last
  /\ pc' = pc
  /\ last'.req.sid = Str(id)

\* a request for a session in processing is answered processing, the store
\* and the downstream calls in flight staying as they are
ProcessingIsReported ==
  [][\A id \in DOMAIN store :
       (store[id].status = "processing" /\ AnsweredAtOnce(id))
         => /\ last'.result.status = "processing"
            /\ store' = store
            /\ hreq' = hreq]_vars

\* no fulfilment starts for a session in processing
ProcessingIsNotReentered ==
  [][\A id \in DOMAIN store, h \in Handlers :
       store[id].status = "processing" => ~(h \notin InFlight(id) /\ h \in InFlight(id)')]_vars

\* at most one fulfilment per session is in flight, and its session is in processing
OneInFlight ==
  \A id \in DOMAIN store :
    /\ Cardinality(InFlight(id)) <= 1
    /\ InFlight(id) # {} => store[id].status = "processing"

\* a session leaves processing only in a step of the fulfilment in flight
OnlyTheFulfilmentMoves ==
  [][\A id \in DOMAIN store :
       (store[id].status = "processing" /\ store'[id].status # "processing")
         => \E h \in InFlight(id) : pc'[h] = "idle"]_vars

\* C23: while a session is in status processing, every notification and every
\* checkout-return request for it reports processing, leaves the session
\* unchanged and makes no downstream call; at most one fulfilment per session
\* is in flight at any time and only that fulfilment changes the status next.
C23_ProcessingIsExclusive ==
  /\ ProcessingIsReported
  /\ ProcessingIsNotReentered
  /\ []OneInFlight
  /\ OnlyTheFulfilmentMoves

\* a failure notification for a session in processing has been answered
\* processing while the fulfilment is still in flight
C23_Witness ==
  \E id \in DOMAIN store :
    /\ store[id].status = "processing"
    /\ InFlight(id) # {}
    /\ last.req.sid = Str(id)
    /\ last.req.kind = "webhook"
    /\ ~isSuccess(last.req.payload)
    /\ last.result.status = "processing"

----
\* Claims about the checkout return (specification Spec)

\* the step answers a checkout-return request for session id whose query
\* carries the session id and nothing else
BareReturnAnswered(id) ==
  /\ last' # last
  /\ pc' = pc
  /\ last'.req = [kind |-> "return", sid |-> Str(id), payload |-> PayEmpty, sig |-> FALSE]

\* C24: a checkout-return request whose query carries only the session id,
\* arriving for a session in status created, sets that session to failed and
\* makes no downstream call.
C24_BareReturnFailsCreatedSession ==
  /\ [][\A id \in DOMAIN store :
          (store[id].status = "created" /\ BareReturnAnswered(id))
            => /\ store'[id].status = "failed"
               /\ last'.result = Result("failed", "Gateway reported failure")]_vars
  /\ [][\A h \in Handlers :
          (pc[h] = "idle" /\ pc'[h] # "idle")
            => ~(hreq'[h].kind = "return" /\ hreq'[h].payload = PayEmpty)]_vars

C24_Witness ==
  /\ last.req.kind = "return"
  /\ last.req.payload = PayEmpty
  /\ last.start = "created"
  /\ IsString(last.req.sid)
  /\ Has(store, last.req.sid.s)
  /\ store[last.req.sid.s].status = "failed"

----
\* Claims about the end of a fulfilment (specification SpecLive)

\* C25: if every downstream call eventually returns or throws and the process
\* does not crash, a session in processing eventually becomes paid or failed.
C25_ProcessingEnds ==
  \A id \in SessionIds :
    (Has(store, id) /\ store[id].status = "processing")
      ~> (Has(store, id) /\ store[id].status \in {"paid", "failed"})

\* a fulfilment has ended and left its session paid or failed
C25_Witness ==
  /\ last.start \in {"created", "failed"}
  /\ last.sale + last.client >= 1
  /\ store[last.req.sid.s].status \in {"paid", "failed"}

----
\* Claims about the cart of the sale-checkout call (specification SpecCart)

\* the item type the line type is said to map to, the type's case left aside
ClaimedItemType(line) ==
  IF "type" \notin DOMAIN line \/ ~IsString(line.type) THEN "Service"
  ELSE IF ToLowerCase(line.type.s) = <<"p","r","o","d","u","c","t">> THEN "Product"
  ELSE IF ToLowerCase(line.type.s) = <<"p","a","c","k","a","g","e">> THEN "PricingOption"
  ELSE IF ToLowerCase(line.type.s) = <<"p","r","i","c","i","n","g","o","p","t","i","o","n">>
    THEN "PricingOption"
  ELSE "Service"

\* C29: the cart sent to sale checkout has exactly one item per session line,
\* in the same order, carrying that line's quantity and unit price, with item
\* type Product for line type product, PricingOption for package or
\* pricingoption and Service for every other line type; the total sent is the
\* session's stored total.
C29_CartMirrorsLines ==
  fnOut.done =>
    /\ Len(fnOut.Items) = Len(fnIn.lines)
    /\ \A i \in 1..Len(fnIn.lines) :
         /\ fnOut.Items[i].Quantity = fnIn.lines[i].qty
         /\ fnOut.Items[i].Price = fnIn.lines[i].unitPrice
         /\ fnOut.Items[i].Id = fnIn.lines[i].productId
         /\ fnOut.Items[i].Type = ClaimedItemType(fnIn.lines[i])
    /\ fnOut.Total = fnIn.total

\* a cart of a package and a product, of different quantities and prices
C29_Witness ==
  /\ fnOut.done
  /\ Len(fnOut.Items) = 2
  /\ fnOut.Items[1].Type = "PricingOption"
  /\ fnOut.Items[2].Type = "Product"
  /\ fnOut.Items[1].Quantity = 2
  /\ fnOut.Items[1].Price # fnOut.Items[2].Price

----
\* Claims about the customer of a sale (specification SpecClient)

\* C27: the customer used for a session's sale is either an existing downstream
\* customer whose email equals the session customer's email, compared
\* case-insensitively, or a customer newly created with that email; a customer
\* with a different email is never used.
C27_CustomerHasSessionEmail ==
  (fnOut.done /\ ~Falsy(fnOut.resolvedClientId)) =>
    \/ fnOut.client.created /\ fnOut.client.Email = fnIn.email
    \/ /\ ~fnOut.client.created
       /\ IsString(Field(fnOut.client, "Email"))
       /\ ToLowerCase(fnOut.client.Email.s) = ToLowerCase(fnIn.email.s)

----
\* Claims about session creation and the hosted payment (specification SpecCreation)

\* C28: a session is in the store only if the gateway's hosted-payment
\* creation for it succeeded and returned a redirect URL; when the creation is
\* rejected or throws, on any creation path, the store holds no session for
\* that attempt.
C28_NoSessionWithoutHostedPayment ==
  fnOut.done =>
    /\ Has(fnOut.store, fnIn.id) => fnIn.hosted = "redirect"
    /\ fnIn.hosted # "redirect" => fnOut.store = fnIn.store

----
\* Claims about a delivery that ended in an error (specification SpecSigned)

\* the last answer was an error for an event the guard had let through, and the
\* TTL removal of its id has not fired since
ErrorWithinTtl ==
  /\ slast.body = "error"
  /\ slast.once = "true"
  /\ window[slast.ep][slast.id] = "open"

\* the step starts the fulfilment of a delivery of event id at endpoint ep
StartsFulfilment(ep, id) ==
  \E w \in SignedHandlers :
    /\ spc[w] = "idle"
    /\ spc'[w] # "idle"
    /\ sreq'[w].ep = ep
    /\ sreq'[w].id = id

\* the step answers a verified delivery of event id at endpoint ep at once
AnswersDelivery(ep, id) ==
  /\ slast' # slast
  /\ spc' = spc
  /\ slast'.verified
  /\ slast'.ep = ep
  /\ slast'.id = id

\* C26: on the signed endpoints the event id is marked as seen before the event
\* is fulfilled: when a delivery of a succeeded event has ended in an error
\* response (missing metadata or a failed downstream call), a redelivery of the
\* same event id within the TTL window is answered as deduped and posts no sale.
C26_ErrorIsNotRetried ==
  /\ [](\A ep \in Endpoints, id \in EventIds :
          window[ep][id] = "open" <=> Key(id) \in seen[ep])
  /\ [][\A ep \in Endpoints, id \in EventIds :
          StartsFulfilment(ep, id) => Key(id) \in seen'[ep]]_vars
  /\ [][ErrorWithinTtl =>
          /\ ~StartsFulfilment(slast.ep, slast.id)
          /\ AnswersDelivery(slast.ep, slast.id)
               => /\ slast'.body = "deduped"
                  /\ slast'.http = 200
                  /\ slast'.calls = 0
                  /\ scalls' = scalls]_vars

\* a delivery ended in an error after a downstream call failed, and its event
\* id is still marked as seen
C26_Witness ==
  /\ ErrorWithinTtl
  /\ slast.calls >= 1
  /\ Key(slast.id) \in seen[slast.ep]
  /\ \A w \in SignedHandlers : spc[w] = "idle"

----
\* Claims about the shared Mindbody client (specification SpecMbo)

\* C21: within one fulfilment each downstream operation (customer lookup,
\* customer creation, sale checkout) sends at most one HTTP request: a
\* downstream request that fails is never re-sent automatically.
C21_RequestSentAtMostOnce ==
  \A r \in Reqs : mbo.req[r].sent <= 1

\* a request that received a 401 while a refresh was pending joins that refresh:
\* no issue request is started and the request waits for the pending one
JoinsPendingRefresh(r) ==
  (mbo.req[r].pc = "sent" /\ mbo'.req[r].pc = "wait" /\ mbo.pending > 0)
    => /\ mbo'.issues = mbo.issues
       /\ mbo'.pending = mbo.pending
       /\ mbo'.req[r].refresh = mbo.issues

\* a request that waited for a refresh is re-sent with the token that refresh
\* produced, which is the token the environment then holds
ResentWithRefreshedToken(r) ==
  (mbo.req[r].pc = "wait" /\ mbo'.req[r].pc = "sent")
    => /\ mbo'.req[r].auth = mbo.req[r].refresh
       /\ mbo'.token = mbo.req[r].refresh
       /\ mbo'.req[r].sent = mbo.req[r].sent + 1

----
\* Claims about the Mindbody service's user token (specification SpecSvc)

\* C22: when MINDBODY_USER_TOKEN is configured, every Mindbody request made by
\* the service carries that configured token and the token-issue endpoint is
\* never called, up to the first request that is rejected with 401.
C22_ConfiguredTokenReused ==
  ~svc.rejected =>
    /\ svc.issues = 0
    /\ \A r \in Reqs : svc.req[r].sent > 0 => svc.req[r].auth = 0

====
